---- MODULE Spec2Model ----
(***************************************************************************)
(* The schedule verifier of scheduler-game (src/src/simulator.py):         *)
(* simulate_cpu replays the per-channel queues of a proposed schedule      *)
(* against a virtual clock and accept_task admits or rejects the head of   *)
(* one channel's queue; generate_tasks builds the task set of a puzzle.     *)
(* A task is named by the number its id is the decimal string of.          *)
(***************************************************************************)
EXTENDS Integers, Sequences, FiniteSets, TLC

\* ------------------------------------------------------------------ bounds
\* Durations of the bounded inputs are 1..MaxDur (the generator draws 1..4).
MaxDur == 2
\* The bounded inputs use the first NRegs registers of the Register enum.
NRegs == 2
\* Start ticks of the bounded inputs are -1..MaxSched.
MaxSched == 2
\* The task lists of the bounded inputs: none, one or two tasks (every rule
\* of accept_task compares the head of a queue with one other task).
TaskLists == {<< >>, <<1>>, <<1, 2>>}

\* ------------------------------------------------------- program constants
\* simulate_cpu's loop runs while time < 30.
MaxTime == 30
\* Task.__init__ sets scheduled to -1, the value simulate_cpu looks for.
Unscheduled == -1
\* generate_tasks draws durations with randrange(1, 5).
GenMaxDuration == 4
\* generate_tasks adds a dependency only if task_depth(depend) < 4.
MaxDepth == 4
\* generate_tasks draws the three resource weights with randint(4, 16).
MinWeight == 4
MaxWeight == 16
\* Mutant of resource_ids: the channels are visited Blue first.
blue_first_ids == <<"BLUE", "GREEN", "RED">>
resource_ids == <<"RED", "GREEN", "BLUE">>
Channels == {resource_ids[i] : i \in 1..Len(resource_ids)}
Register == <<"A", "B", "C", "D", "E", "F">>

\* Python's None, for a running slot (a slot is None or a pair <<tick, task>>).
None == <<>>

VARIABLES
    tasklist,       \* the task list: generate_tasks' lists, simulate_cpu's
                    \* tasklist
    type,           \* Task.type, per task
    duration,       \* Task.duration, per task
    registers,      \* Task.registers, per task
    depends,        \* Task.depends, per task
    scheduled,      \* Task.scheduled, per task
    queues,         \* the caller's solution dict: channel -> list of tasks
    solution,       \* simulate_cpu's own copy of the queues
    completed,      \* simulate_cpu's completed set
    time,           \* simulate_cpu's clock
    running_tasks,  \* channel -> None or <<completion tick, task>>
    pc,             \* position in simulate_cpu
    ch,             \* index in resource_ids of the next accept_task call
    err,            \* the exception raised, if any
    admitted,       \* history: <<task, channel, tick>> of every admission
    trace,          \* history: <<tick, channel index, outcome>> of every
                    \* call of accept_task
    first,          \* history: the outcome of the caller's first call of
                    \* simulate_cpu, once it calls a second time
    gen,            \* generate_tasks' locals
    frontier,       \* the sweep states all schedules of a puzzle can be in
    gui             \* the GameScene: its cards, selection, mouse and flags
                    \* (its boards' time_board lists are the queues)

vars == <<tasklist, type, duration, registers, depends, scheduled, queues,
          solution, completed, time, running_tasks, pc, ch, err, admitted,
          trace, first, gen, frontier, gui>>

\* The fields of the Task objects.
taskfields == <<tasklist, type, duration, registers, depends, scheduled>>

\* What the caller hands to simulate_cpu.
taskvars == <<taskfields, queues>>

\* What simulate_cpu has no access to.
othervars == <<gen, frontier, gui>>

\* ------------------------------------------------------------------ inputs
Tasks == {tasklist[i] : i \in 1..Len(tasklist)}

RegisterSets(n) ==
    {s \in SUBSET {Register[i] : i \in 1..n} : Cardinality(s) \in {1, 2}}

RECURSIVE Closure(_, _, _)
Closure(d, S, k) ==
    IF k = 0 THEN S
    ELSE Closure(d, S \cup UNION {d[x] : x \in S}, k - 1)

\* generate_tasks only adds dependencies on tasks earlier in its internal
\* order, at most two per task: the relation is acyclic.
Acyclic(d) ==
    \A t \in DOMAIN d : t \notin Closure(d, d[t], Cardinality(DOMAIN d))

DependsSets(n) ==
    {d \in [1..n -> SUBSET (1..n)] :
        /\ \A t \in 1..n : Cardinality(d[t]) <= 2
        /\ Acyclic(d)}

SeqsUpTo(S, n) == UNION {[1..k -> S] : k \in 0..n}

RECURSIVE SumLen(_, _)
SumLen(q, i) ==
    IF i = 0 THEN 0 ELSE Len(q[resource_ids[i]]) + SumLen(q, i - 1)

\* What parse_responses can build from three input lines for n tasks: any
\* task under any channel key, in any order, also more than once; the
\* bounded inputs hold at most as many "tick:id" items as there are tasks.
QueueSets(n) ==
    {q \in [Channels -> SeqsUpTo(1..n, n)] :
        SumLen(q, Len(resource_ids)) <= n}

NoError ==
    [kind |-> "none", exc |-> "none", task |-> 0, other |-> 0,
     regs |-> {}, tick |-> -1, ids |-> <<>>]

\* The state at the call of simulate_cpu, before its first statement.
Start ==
    /\ solution = queues
    /\ completed = {}
    /\ time = 0
    /\ running_tasks = [c \in Channels |-> None]
    /\ pc = "check"
    /\ ch = 1
    /\ err = NoError
    /\ admitted = <<>>
    /\ trace = <<>>

\* A caller that has a task set and calls simulate_cpu for the first time.
FirstCall ==
    /\ Start
    /\ first = None
    /\ gen = None
    /\ frontier = {}
    /\ gui = None

\* accept_task never reads Task.type: in the bounded inputs task i has the
\* type resource_ids[i], and is queued under any channel key.
TaskTypes(n) == [i \in 1..n |-> resource_ids[i]]

InitBounded ==
    \E l \in TaskLists : LET n == Len(l) IN
        /\ tasklist = l
        /\ type = TaskTypes(n)
        /\ duration \in [1..n -> 1..MaxDur]
        /\ registers \in [1..n -> RegisterSets(NRegs)]
        /\ depends \in DependsSets(n)
        /\ scheduled \in [1..n -> Unscheduled..MaxSched]
        /\ queues \in QueueSets(n)
        /\ FirstCall

\* The two-task inputs of the spec's scenarios A, B, C and D; what a scenario
\* leaves open (a duration, a register set) ranges over what generate_tasks
\* can produce.
TwoTasks(q, s1, s2, d1, d2, r1, r2, dep2) ==
    /\ tasklist = <<1, 2>>
    /\ type = [t \in 1..2 |->
                 IF \E i \in 1..Len(q["GREEN"]) : q["GREEN"][i] = t
                 THEN "GREEN" ELSE "RED"]
    /\ duration = <<d1, d2>>
    /\ registers = <<r1, r2>>
    /\ depends = <<{}, dep2>>
    /\ scheduled = <<s1, s2>>
    /\ queues = q
    /\ FirstCall

OnRed(l) == [c \in Channels |-> IF c = "RED" THEN l ELSE <<>>]

ScenarioA ==
    \E d2 \in 1..GenMaxDuration, r2 \in RegisterSets(NRegs) :
        TwoTasks(OnRed(<<1, 2>>), 0, 2, 2, d2, {"A"}, r2, {1})

ScenarioB ==
    \E d2 \in 1..GenMaxDuration, r2 \in RegisterSets(NRegs) :
        TwoTasks(OnRed(<<1, 2>>), 0, 1, 2, d2, {"A"}, r2, {1})

ScenarioC ==
    \E d2 \in 1..GenMaxDuration :
        TwoTasks([c \in Channels |->
                    IF c = "RED" THEN <<1>>
                    ELSE IF c = "GREEN" THEN <<2>> ELSE <<>>],
                 0, 1, 3, d2, {"A"}, {"A"}, {})

ScenarioD ==
    \E d1 \in 1..GenMaxDuration, d2 \in 1..GenMaxDuration,
       r1 \in RegisterSets(NRegs), r2 \in RegisterSets(NRegs) :
        TwoTasks(OnRed(<<1, 2>>), 5, 0, d1, d2, r1, r2, {})

\* Start ticks around the tick ceiling.
LateTicks == (MaxTime - 3)..(MaxTime + 1)

\* Two independent tasks started late, one on RED and one on GREEN, or both
\* on RED.
InitLate ==
    \E s1 \in LateTicks, s2 \in LateTicks, d1 \in 1..GenMaxDuration,
       q \in {[c \in Channels |->
                 IF c = "RED" THEN <<1>>
                 ELSE IF c = "GREEN" THEN <<2>> ELSE <<>>],
              OnRed(<<1, 2>>)} :
        TwoTasks(q, s1, s2, d1, 1, {"A"}, {"B"}, {})

Init ==
    \/ InitBounded
    \/ ScenarioA \/ ScenarioB \/ ScenarioC \/ ScenarioD
    \/ InitLate

\* ------------------------------------------------------------ simulate_cpu
BadSchedule(kind, task, other, regs, ids) ==
    [kind |-> kind, exc |-> "BadScheduleException", task |-> task,
     other |-> other, regs |-> regs, tick |-> time, ids |-> ids]

\* Mutant of UnscheduledIds: only the tasks found in the queues are looked at.
UnscheduledQueuedIds ==
    SelectSeq(tasklist,
              LAMBDA t : /\ scheduled[t] = Unscheduled
                         /\ \E c \in Channels, i \in 1..Len(tasklist) :
                               i <= Len(queues[c]) /\ queues[c][i] = t)

\* unscheduled = [t.id for t in tasklist if t.scheduled == -1]
UnscheduledIds ==
    SelectSeq(tasklist, LAMBDA t : scheduled[t] = Unscheduled)

CheckUnscheduled ==
    /\ pc = "check"
    /\ IF UnscheduledIds # <<>>
       THEN /\ pc' = "rejected"
            /\ err' = BadSchedule("unscheduled", 0, 0, {}, UnscheduledIds)
       ELSE /\ pc' = "loop"
            /\ err' = err
    /\ UNCHANGED <<taskvars, solution, completed, time, running_tasks, ch,
                   admitted, trace, first, othervars>>

\* while any(len(l) > 0 for l in solution.values()) and time < 30
\* Mutant of LoopCondition: the loop goes on as long as a queue holds a task.
LoopConditionUnbounded == \E c \in Channels : Len(solution[c]) > 0

LoopCondition ==
    /\ \E c \in Channels : Len(solution[c]) > 0
    /\ time < MaxTime

\* Mutants of Finished: a slot freed one tick early, and one tick late.
FinishedEarly(v) == v # None /\ v[1] <= time + 1
FinishedLate(v) == v # None /\ v[1] < time

\* v and v[0] <= time, for a running slot v
Finished(v) == v # None /\ v[1] <= time

\* The loop head: the loop test, then either the "clear completed tasks"
\* loop of one tick, or the exit of the loop with its final test of time.
LoopHead ==
    /\ pc = "loop"
    /\ IF LoopCondition
       THEN /\ running_tasks' =
                [c \in Channels |->
                    IF Finished(running_tasks[c]) THEN None
                    ELSE running_tasks[c]]
            /\ completed' = completed \cup
                {running_tasks[c][2] :
                    c \in {k \in Channels : Finished(running_tasks[k])}}
            /\ pc' = "accept"
            /\ ch' = 1
            /\ err' = err
       ELSE /\ IF time >= MaxTime
               THEN /\ pc' = "ceiling"
                    /\ err' = [NoError EXCEPT !.kind = "ceiling",
                                              !.exc = "Exception",
                                              !.tick = time]
               ELSE /\ pc' = "accepted"
                    /\ err' = err
            /\ UNCHANGED <<running_tasks, completed, ch>>
    /\ UNCHANGED <<taskvars, solution, time, admitted, trace, first,
                   othervars>>

\* ------------------------------------------------------------- accept_task
\* Mutant of Late: a head that is due now counts as late.
LateOrDue(task) == scheduled[task] <= time

\* Mutant of Late: no head is ever found late.
NeverLate(task) == FALSE

\* task.scheduled < time
Late(task) == scheduled[task] < time

\* Mutant of ConflictIndexes: only the slot of the channel being processed
\* is compared.
OwnConflictIndexes(task) ==
    {i \in {ch} :
        LET running == running_tasks[resource_ids[i]] IN
        /\ running # None
        /\ registers[task] \cap registers[running[2]] # {}}

\* The running slots, in dict order, whose task shares a register with task.
ConflictIndexes(task) ==
    {i \in 1..Len(resource_ids) :
        LET running == running_tasks[resource_ids[i]] IN
        /\ running # None
        /\ registers[task] \cap registers[running[2]] # {}}

\* next(...) takes the first such slot's task.
RegisterConflict(task) ==
    LET i == CHOOSE i \in ConflictIndexes(task) :
                 \A j \in ConflictIndexes(task) : i <= j
    IN running_tasks[resource_ids[i]][2]

\* Mutant of Unmet: a dependency that is still running counts as completed.
UnmetNotStarted(task) ==
    {depend \in depends[task] :
        /\ depend \notin completed
        /\ \A c \in Channels :
              running_tasks[c] = None \/ running_tasks[c][2] # depend}

\* The dependencies of task that are not in completed.
Unmet(task) == {depend \in depends[task] : depend \notin completed}

\* What follows a call of accept_task that returns: the next channel, or
\* after the last channel "time += 1" and back to the loop head.
Return ==
    IF ch < Len(resource_ids)
    THEN /\ ch' = ch + 1
         /\ pc' = "accept"
         /\ time' = time
    ELSE /\ ch' = 1
         /\ pc' = "loop"
         /\ time' = time + 1

\* One more call of accept_task in the history.
Log(outcome) == trace' = Append(trace, <<time, ch, outcome>>)

\* A return of accept_task that admitted nothing.
Skip(outcome) ==
    /\ Return
    /\ Log(outcome)
    /\ UNCHANGED <<queues, solution, running_tasks, admitted, err>>

\* Mutant of Raise: the exception is recorded and the sweep goes on.
RaiseAndGoOn(e) ==
    /\ err' = e
    /\ Return
    /\ Log("raised")
    /\ UNCHANGED <<queues, solution, running_tasks, admitted>>

\* raise BadScheduleException(...): simulate_cpu is left at once.
Raise(e) ==
    /\ pc' = "rejected"
    /\ err' = e
    /\ Log("raised")
    /\ UNCHANGED <<queues, solution, running_tasks, admitted, ch, time>>

\* Mutant of CallerQueues: simulate_cpu pops from the caller's own lists.
CallerQueuesShared(channel) == [queues EXCEPT ![channel] = Tail(@)]

\* The caller's queues after solution[channel].pop(0): solution holds
\* copies of the caller's lists, which are left as they were.
CallerQueues(channel) == queues

\* Mutant of Completion: the slot is held one tick longer.
CompletionNext(task) == time + duration[task] + 1

\* The tick a task admitted now ends at: time + task.duration.
Completion(task) == time + duration[task]

AcceptTask ==
    /\ pc = "accept"
    /\ LET channel == resource_ids[ch]
           running == running_tasks[channel]
       IN
       IF Len(solution[channel]) = 0
       THEN Skip("empty")
       ELSE
       LET task == solution[channel][1] IN
       IF Late(task)
       THEN Raise(BadSchedule("order", task, 0, {}, <<>>))
       ELSE IF ~(scheduled[task] = time)
       THEN Skip("waiting")
       ELSE IF running # None
       THEN Raise(BadSchedule("collision", task, running[2], {}, <<>>))
       ELSE IF ConflictIndexes(task) # {}
       THEN LET other == RegisterConflict(task) IN
            Raise(BadSchedule("register", task, other,
                              registers[task] \cap registers[other], <<>>))
       ELSE IF Unmet(task) # {}
       THEN \E bad_ordering \in Unmet(task) :
                Raise(BadSchedule("dependency", task, bad_ordering, {}, <<>>))
       ELSE /\ running_tasks' =
                   [running_tasks EXCEPT
                       ![channel] = <<Completion(task), task>>]
            /\ solution' = [solution EXCEPT ![channel] = Tail(@)]
            /\ queues' = CallerQueues(channel)
            /\ admitted' = Append(admitted, <<task, channel, time>>)
            /\ err' = err
            /\ Log("admitted")
            /\ Return
    /\ UNCHANGED <<taskfields, completed, first, othervars>>

Next == CheckUnscheduled \/ LoopHead \/ AcceptTask

Spec == Init /\ [][Next]_vars

\* The inputs in which every task uses register A alone or register B
\* alone: two tasks share their register or they do not.
InitOneRegister ==
    /\ Init
    /\ \A i \in 1..Len(tasklist) : registers[tasklist[i]] \in {{"A"}, {"B"}}

\* simulate_cpu is one sequential call: a statement that can run, runs.
SpecFair == InitOneRegister /\ [][Next]_vars /\ WF_vars(Next)

\* ------------------------------------------- a caller that verifies twice
\* What the caller of simulate_cpu sees of one call: how it ended, and for
\* an exception its class, its rejection kind and the tick it was raised at.
Outcome == [pc |-> pc, exc |-> err.exc, kind |-> err.kind, tick |-> err.tick]

\* The caller catches the outcome and calls simulate_cpu once more with the
\* same queues and the same task list, as console_app's retry loop and
\* pygame_app's submit button do.
CallAgain ==
    /\ pc \in {"accepted", "rejected", "ceiling"}
    /\ first = None
    /\ first' = Outcome
    /\ solution' = queues
    /\ completed' = {}
    /\ time' = 0
    /\ running_tasks' = [c \in Channels |-> None]
    /\ pc' = "check"
    /\ ch' = 1
    /\ err' = NoError
    /\ admitted' = <<>>
    /\ trace' = <<>>
    /\ UNCHANGED <<taskvars, othervars>>

NextTwice == CheckUnscheduled \/ LoopHead \/ AcceptTask \/ CallAgain

SpecTwice == Init /\ [][NextTwice]_vars

\* ---------------------------------------------------------------- outcomes
Accepted == pc = "accepted"
Rejected(kind) == pc = "rejected" /\ err.kind = kind

Admissions == DOMAIN admitted
AdmittedTasks == {admitted[i][1] : i \in Admissions}

\* The execution window [scheduled, scheduled + duration) of a task.
WindowsOverlap(t, u) ==
    /\ scheduled[t] < scheduled[u] + duration[u]
    /\ scheduled[u] < scheduled[t] + duration[t]

Range(s) == {s[i] : i \in DOMAIN s}
Queued == UNION {Range(queues[c]) : c \in Channels}

\* ------------------------------------------------------------------ claims

\* C1: if simulate_cpu accepts, any two distinct admitted tasks whose
\* execution windows overlap have disjoint register sets, whichever channels
\* they ran on.
C1_RegisterExclusive ==
    Accepted =>
        \A t \in AdmittedTasks, u \in AdmittedTasks :
            (t # u /\ WindowsOverlap(t, u)) =>
                registers[t] \cap registers[u] = {}

\* C1 witness: an accepted run in which two tasks ran at the same time on
\* different channels.
C1_Witness ==
    /\ Accepted
    /\ \E i \in Admissions, j \in Admissions :
        /\ admitted[i][1] # admitted[j][1]
        /\ admitted[i][2] # admitted[j][2]
        /\ WindowsOverlap(admitted[i][1], admitted[j][1])

\* C2: if simulate_cpu accepts, every dependency of every task taken from the
\* queues was itself admitted and completed no later than the task started.
C2_DependenciesCompleted ==
    Accepted =>
        \A t \in AdmittedTasks : \A d \in depends[t] :
            /\ d \in AdmittedTasks
            /\ scheduled[d] + duration[d] <= scheduled[t]

\* C2 witness: an accepted run that admitted a task with a dependency.
C2_Witness ==
    /\ Accepted
    /\ \E t \in AdmittedTasks : depends[t] # {}

\* The admissions on channel c whose execution window holds the current tick.
RunningOn(c) ==
    {i \in Admissions :
        /\ admitted[i][2] = c
        /\ admitted[i][3] <= time
        /\ time < admitted[i][3] + duration[admitted[i][1]]}

\* C3: at every step each channel runs at most one task; a task is never
\* admitted into a slot that holds a task whose completion tick is greater
\* than the current tick; and if simulate_cpu accepts, the windows of two
\* tasks taken from the same channel queue do not overlap.
C3_OnePerChannel ==
    /\ [](\A c \in Channels : Cardinality(RunningOn(c)) <= 1)
    /\ [][\A c \in Channels :
            solution'[c] # solution[c] =>
                ~(running_tasks[c] # None /\ running_tasks[c][1] > time)]_vars
    /\ [](Accepted =>
            \A i \in Admissions, j \in Admissions :
                (i # j /\ admitted[i][2] = admitted[j][2]) =>
                    ~WindowsOverlap(admitted[i][1], admitted[j][1]))

\* C3 witness: an accepted run that took two tasks from one channel's queue.
C3_Witness ==
    /\ Accepted
    /\ \E i \in Admissions, j \in Admissions :
        i # j /\ admitted[i][2] = admitted[j][2]

\* C4 (as claimed): if simulate_cpu accepts, every task of the task set was
\* admitted during the sweep.
C4_AllTasksAdmitted ==
    Accepted => \A t \in Tasks : t \in AdmittedTasks

\* C5: if some task has scheduled = -1 at the call, simulate_cpu rejects with
\* the 'not scheduled' exception listing exactly the ids of the tasks whose
\* scheduled is -1, at tick 0 and before any admission, whatever the queues.
C5_UnscheduledRejected ==
    (\E t \in Tasks : scheduled[t] = Unscheduled) =>
        \/ pc = "check"
        \/ /\ Rejected("unscheduled")
           /\ err.exc = "BadScheduleException"
           /\ Range(err.ids) = {t \in Tasks : scheduled[t] = Unscheduled}
           /\ Len(err.ids) = Cardinality(Range(err.ids))
           /\ time = 0
           /\ admitted = <<>>
           /\ solution = queues

\* C5 witness: the rejection, for a task that is queued but not scheduled
\* while another task is scheduled.
C5_Witness ==
    /\ Rejected("unscheduled")
    /\ \E t \in Queued : scheduled[t] = Unscheduled
    /\ \E t \in Tasks : scheduled[t] # Unscheduled

\* ------------------------------------------------- round-trip schedules (C6)
Max(S) == CHOOSE x \in S : \A y \in S : y <= x

RECURSIVE Perms(_)
Perms(S) ==
    IF S = {} THEN {<<>>}
    ELSE UNION {{Append(p, x) : p \in Perms(S \ {x})} : x \in S}

\* Every dependency of a task comes before the task.
Topological(order) ==
    \A i, j \in DOMAIN order : order[j] \in depends[order[i]] => j < i

Before(order, k) == {order[i] : i \in 1..(k - 1)}

\* The end of the tasks placed before t on t's channel: the cumulative sum of
\* their durations, later if one of them was moved; never before the
\* completion of t's dependencies.
PlainStart(placed, chan, t) ==
    Max({0}
        \cup {scheduled[u] + duration[u] : u \in {p \in placed : chan[p] = chan[t]}}
        \cup {scheduled[d] + duration[d] : d \in depends[t]})

\* No placed task that shares a register with t runs during [s, s + duration).
RegistersFree(placed, t, s) ==
    \A u \in placed :
        registers[t] \cap registers[u] # {} =>
            ~(s < scheduled[u] + duration[u] /\ scheduled[u] < s + duration[t])

Ends(placed) == Max({0} \cup {scheduled[u] + duration[u] : u \in placed})

\* The first tick from PlainStart on at which t's registers are free.
RegisterStart(placed, chan, t) ==
    CHOOSE s \in PlainStart(placed, chan, t)..Ends(placed) :
        /\ RegistersFree(placed, t, s)
        /\ \A e \in PlainStart(placed, chan, t)..(s - 1) :
              ~RegistersFree(placed, t, e)

QueuesFollow(order, chan) ==
    \A c \in Channels :
        queues[c] = SelectSeq(order, LAMBDA t : chan[t] = c)

\* The input is a schedule built in a topological order, each task at the
\* end of its channel's earlier tasks and of its dependencies.
PlainRoundTrip ==
    \E order \in Perms(Tasks), chan \in [Tasks -> Channels] :
        /\ Topological(order)
        /\ QueuesFollow(order, chan)
        /\ \A k \in DOMAIN order :
              scheduled[order[k]] = PlainStart(Before(order, k), chan, order[k])

\* The same, each task moved on to the first tick at which no task placed
\* before it that shares a register with it is running.
RegisterRoundTrip ==
    \E order \in Perms(Tasks), chan \in [Tasks -> Channels] :
        /\ Topological(order)
        /\ QueuesFollow(order, chan)
        /\ \A k \in DOMAIN order :
              scheduled[order[k]] =
                  RegisterStart(Before(order, k), chan, order[k])

Terminal == pc \in {"accepted", "rejected", "ceiling"}

IsScenarioA ==
    /\ tasklist = <<1, 2>>
    /\ queues = OnRed(<<1, 2>>)
    /\ scheduled = <<0, 2>>
    /\ duration[1] = 2
    /\ registers[1] = {"A"}
    /\ depends = <<{}, {1}>>

IsScenarioB ==
    /\ tasklist = <<1, 2>>
    /\ queues = OnRed(<<1, 2>>)
    /\ scheduled = <<0, 1>>
    /\ duration[1] = 2
    /\ registers[1] = {"A"}
    /\ depends = <<{}, {1}>>

IsScenarioC ==
    /\ tasklist = <<1, 2>>
    /\ queues = [c \in Channels |->
                    IF c = "RED" THEN <<1>>
                    ELSE IF c = "GREEN" THEN <<2>> ELSE <<>>]
    /\ scheduled = <<0, 1>>
    /\ duration[1] = 3
    /\ registers = <<{"A"}, {"A"}>>
    /\ depends = <<{}, {}>>

IsScenarioD ==
    /\ tasklist = <<1, 2>>
    /\ queues = OnRed(<<1, 2>>)
    /\ scheduled = <<5, 0>>
    /\ depends = <<{}, {}>>

\* C7 (as claimed): scenario B is rejected with the dependency-not-completed
\* diagnosis naming task1 at tick 1.
C7_ScenarioBDependency ==
    (IsScenarioB /\ Terminal) =>
        /\ Rejected("dependency")
        /\ err.other = 1
        /\ err.tick = 1

\* C7 (amended): scenario B is rejected at tick 1 with the task-collision
\* diagnosis: task2 cannot be scheduled, task1 is already scheduled until 2.
C7_ScenarioBCollision ==
    IsScenarioB =>
        /\ pc \notin {"accepted", "ceiling"}
        /\ pc = "rejected" =>
            /\ err.kind = "collision"
            /\ err.exc = "BadScheduleException"
            /\ err.task = 2
            /\ err.other = 1
            /\ running_tasks["RED"] = <<2, 1>>
            /\ err.tick = 1

\* C7 witness: the rejection of scenario B.
C7_Witness == IsScenarioB /\ pc = "rejected"

\* C8 (as claimed): scenario D is rejected with 'Schedule not in order' for
\* task2 while the clock is at a tick in 1..4.
C8_ScenarioDEarly ==
    (IsScenarioD /\ Terminal) =>
        /\ Rejected("order")
        /\ err.task = 2
        /\ err.tick \in 1..4

\* C8 (amended): scenario D is rejected with 'Schedule not in order' for
\* task2 at tick 6, after task1 was admitted at its tick 5; nothing is
\* rejected while the clock is at 0..5.
C8_ScenarioDAfterHead ==
    IsScenarioD =>
        /\ pc \notin {"accepted", "ceiling"}
        /\ pc = "rejected" =>
            /\ err.kind = "order"
            /\ err.exc = "BadScheduleException"
            /\ err.task = 2
            /\ err.tick = 6
            /\ admitted = << <<1, "RED", 5>> >>

\* C8 witness: the rejection of scenario D.
C8_Witness == IsScenarioD /\ pc = "rejected"

\* The head of the channel being processed, when it is due at this tick and
\* its own slot is free.
DueHead(task) ==
    /\ pc = "accept"
    /\ Len(solution[resource_ids[ch]]) > 0
    /\ task = solution[resource_ids[ch]][1]
    /\ scheduled[task] = time
    /\ running_tasks[resource_ids[ch]] = None

\* The tasks running now, on any channel, that share a register with task.
Sharing(task) ==
    {running_tasks[c][2] :
        c \in {k \in Channels :
                /\ running_tasks[k] # None
                /\ running_tasks[k][1] > time
                /\ registers[task] \cap registers[running_tasks[k][2]] # {}}}

\* C9: when the head of a queue is due, its slot is free and a task running
\* on any channel shares a register with it, simulate_cpu rejects at that
\* tick with the register-conflict diagnosis naming both tasks and exactly
\* their shared registers; scenario C is so rejected at tick 1, register A.
C9_RegisterConflictRejected ==
    /\ [][\A task \in Tasks :
            (DueHead(task) /\ Sharing(task) # {}) =>
                /\ pc' = "rejected"
                /\ err'.kind = "register"
                /\ err'.exc = "BadScheduleException"
                /\ err'.tick = time
                /\ err'.task = task
                /\ err'.other \in Sharing(task)
                /\ err'.regs = registers[task] \cap registers[err'.other]
                /\ admitted' = admitted]_vars
    /\ [](IsScenarioC =>
            /\ pc \notin {"accepted", "ceiling"}
            /\ pc = "rejected" =>
                /\ err.kind = "register"
                /\ err.tick = 1
                /\ err.task = 2
                /\ err.other = 1
                /\ err.regs = {"A"})

\* C9 witness: a register conflict with a task running on another channel
\* than the one of the rejected task, the two sharing only part of their
\* registers.
C9_Witness ==
    /\ Rejected("register")
    /\ err.regs # registers[err.task]
    /\ \E c \in Channels \ {resource_ids[ch]} :
        /\ running_tasks[c] # None
        /\ running_tasks[c][2] = err.other

\* C10: a task may start at the tick at which another completes.  While an
\* admission of any tick is attempted, every task admitted at s with
\* duration d is out of its slot and in the completed set from tick s + d
\* on, and holds its slot at every tick before; a due head that is blocked
\* by no task completing after the current tick is admitted; scenario A is
\* accepted.
C10_StartAtCompletion ==
    /\ [](\A i \in Admissions :
            LET task == admitted[i][1]
                slot == running_tasks[admitted[i][2]]
                end  == admitted[i][3] + duration[task]
            IN /\ time < end => slot = <<end, task>>
               /\ (pc = "accept" /\ time >= end) =>
                    /\ task \in completed
                    /\ slot # <<end, task>>)
    /\ [][\A task \in Tasks :
            (/\ pc = "accept"
             /\ Len(solution[resource_ids[ch]]) > 0
             /\ task = solution[resource_ids[ch]][1]
             /\ scheduled[task] = time
             /\ \A i \in Admissions :
                   (\/ admitted[i][2] = resource_ids[ch]
                    \/ registers[admitted[i][1]] \cap registers[task] # {})
                   => admitted[i][3] + duration[admitted[i][1]] <= time
             /\ \A d \in depends[task] : \E i \in Admissions :
                   /\ admitted[i][1] = d
                   /\ admitted[i][3] + duration[d] <= time)
            => admitted' = Append(admitted, <<task, resource_ids[ch], time>>)]_vars
    /\ [](IsScenarioA => pc \notin {"rejected", "ceiling"})

\* C10 witness: an accepted run in which a task started on the tick its
\* dependency completed, on the same channel and sharing a register with it.
C10_Witness ==
    /\ Accepted
    /\ \E i \in Admissions, j \in Admissions :
        /\ admitted[j][3] = admitted[i][3] + duration[admitted[i][1]]
        /\ admitted[i][1] \in depends[admitted[j][1]]
        /\ admitted[i][2] = admitted[j][2]
        /\ registers[admitted[i][1]] \cap registers[admitted[j][1]] # {}

\* ---------------------------------------------------------- generate_tasks
\* The lengths generate_tasks is called with in the full model of it.
GenLengths == {0, 1, 2}

\* simulate_cpu's variables while it has not been called.
NotCalled ==
    /\ queues = [c \in Channels |-> <<>>]
    /\ solution = queues
    /\ completed = {}
    /\ time = 0
    /\ running_tasks = [c \in Channels |-> None]
    /\ ch = 1
    /\ err = NoError
    /\ admitted = <<>>
    /\ trace = <<>>
    /\ first = None
    /\ gui = None

simvars == <<queues, solution, completed, time, running_tasks, ch, err,
             admitted, trace, first, gui>>

\* generate_tasks' locals at its first statement.
Locals(length) ==
    [length |-> length, weights |-> <<>>, resource_tasks |-> <<0, 0, 0>>,
     i |-> 0, order |-> <<>>, refused |-> FALSE]

InitGen ==
    \E length \in GenLengths :
        /\ gen = Locals(length)
        /\ pc = "create"
        /\ tasklist = <<>>
        /\ type = <<>>
        /\ duration = <<>>
        /\ registers = <<>>
        /\ depends = <<>>
        /\ scheduled = <<>>
        /\ frontier = {}
        /\ NotCalled

\* Task.id is str(i): the decimal string of the task's number.
TaskId(t) == ToString(t)

\* Mutant of Created: the blank tasks are numbered from 0.
CreatedFromZero(length) == 0..(length - 1)

\* for i in range(1, length + 1)
Created(length) == 1..length

\* The blank tasks, then the first shuffle.
CreateTasks ==
    /\ pc = "create"
    /\ LET new == Created(gen.length) IN
        /\ tasklist' \in Perms(new)
        /\ type' = [t \in new |-> "RED"]
        /\ duration' = [t \in new |-> 1]
        /\ depends' = [t \in new |-> {}]
        /\ registers' = [t \in new |-> {}]
        /\ scheduled' = [t \in new |-> Unscheduled]
    /\ pc' = "weights"
    /\ UNCHANGED <<gen, frontier, simvars>>

Sum3(w) == w[1] + w[2] + w[3]

\* distance[i] = resource_ratio[i] - resource_tasks[i] / length, times the
\* positive number length * sum_weights.
Distance(w, length, counts, i) == w[i] * length - counts[i] * Sum3(w)

\* The indexes of the greatest exact distance.
Largest(w, length, counts) ==
    {i \in 1..3 : \A j \in 1..3 :
        Distance(w, length, counts, j) <= Distance(w, length, counts, i)}

\* Mutant of Farthest: the channel with the smallest distance is taken.
Nearest(w, length, counts) ==
    {i \in 1..3 : \A j \in 1..3 :
        Distance(w, length, counts, i) <= Distance(w, length, counts, j)}

\* max(enumerate(distance), key=...) takes the first index of the greatest
\* distance.  The distances are floats: two channels with the same weight
\* and the same count have the same float and the earlier one is taken;
\* between channels whose exact distances are equal but computed from
\* different numbers, the rounding decides which float is the greatest.
Farthest(w, length, counts) ==
    {i \in Largest(w, length, counts) :
        \A j \in Largest(w, length, counts) :
            (w[j] = w[i] /\ counts[j] = counts[i]) => i <= j}

\* The values resource_tasks can have after k more rounds of the loop.
RECURSIVE Balanced(_, _, _, _)
Balanced(w, length, counts, k) ==
    IF k = 0 THEN {counts}
    ELSE UNION {Balanced(w, length, [counts EXCEPT ![i] = @ + 1], k - 1) :
                    i \in Farthest(w, length, counts)}

\* resource_weights = [rand.randint(4, 16) for _ in range(3)]
DrawWeights ==
    /\ pc = "weights"
    /\ \E w \in [1..3 -> MinWeight..MaxWeight] :
        gen' = [gen EXCEPT !.weights = w]
    /\ pc' = "balance"
    /\ UNCHANGED <<taskfields, frontier, simvars>>

\* How many tasks each resource gets.
Balance ==
    /\ pc = "balance"
    /\ \E counts \in
            Balanced(gen.weights, gen.length, <<0, 0, 0>>, gen.length) :
        gen' = [gen EXCEPT !.resource_tasks = counts]
    /\ pc' = "types"
    /\ UNCHANGED <<taskfields, frontier, simvars>>

\* The index of t in the list l.
Pos(l, t) == CHOOSE k \in 1..Len(l) : l[k] = t

\* The type of the k-th task of lists: resource_tasks[1] times Red, then
\* resource_tasks[2] times Green, then Blue.
TypeAt(counts, k) ==
    IF k <= counts[1] THEN resource_ids[1]
    ELSE IF k <= counts[1] + counts[2] THEN resource_ids[2]
    ELSE resource_ids[3]

\* The types, then the second shuffle; resource_weights is not read again.
AssignTypes ==
    /\ pc = "types"
    /\ type' = [t \in Tasks |-> TypeAt(gen.resource_tasks, Pos(tasklist, t))]
    /\ tasklist' \in Perms(Tasks)
    /\ gen' = [gen EXCEPT !.weights = <<>>]
    /\ pc' = "durations"
    /\ UNCHANGED <<duration, registers, depends, scheduled, frontier, simvars>>

\* Mutant of DurationDraws: randint(1, 5), as in the old main.py.
DurationDrawsInclusive == 1..(GenMaxDuration + 1)

\* rand.randrange(1, 5)
DurationDraws == 1..GenMaxDuration

AddDurations ==
    /\ pc = "durations"
    /\ duration' \in [Tasks -> DurationDraws]
    /\ pc' = "registers"
    /\ UNCHANGED <<tasklist, type, registers, depends, scheduled, gen,
                   frontier, simvars>>

\* rand.choice(list(Register)), over the first NRegs registers.
RegisterDraws == {Register[i] : i \in 1..NRegs}

\* Mutant of RegisterSet: the second draw replaces the first.
RegisterSetLast(one, again, two) == IF again THEN {two} ELSE {}

\* register_set after its one or two add calls.
RegisterSet(one, again, two) == IF again THEN {one, two} ELSE {one}

\* The registers; then the dependency loop starts at i = 1.
AddRegisters ==
    /\ pc = "registers"
    /\ \E one \in [Tasks -> RegisterDraws], again \in [Tasks -> BOOLEAN],
          two \in [Tasks -> RegisterDraws] :
            registers' =
                [t \in Tasks |-> RegisterSet(one[t], again[t], two[t])]
    /\ gen' = [gen EXCEPT !.i = 1]
    /\ pc' = "depends"
    /\ UNCHANGED <<tasklist, type, duration, depends, scheduled, frontier,
                   simvars>>

\* task_depth, over the dependency relation d.
RECURSIVE task_depth(_, _)
task_depth(d, task) ==
    IF d[task] = {} THEN 1
    ELSE 1 + Max({task_depth(d, o) : o \in d[task]})

\* Mutant of DepthOk: a candidate of depth 4 is still taken.
DepthOkLoose(d, depend) == task_depth(d, depend) <= MaxDepth

\* task_depth(depend) < 4
DepthOk(d, depend) == task_depth(d, depend) < MaxDepth

\* Mutant of Candidates: the tasks after lists[i].
CandidatesAfter(i) == {tasklist[k] : k \in (i + 2)..Len(tasklist)}

\* lists[:i], the tasks before lists[i] (the list is indexed from 1 here).
Candidates(i) == {tasklist[k] : k \in 1..i}

\* if task_depth(depend) < 4: task.depends.add(depend)
AddDepend(d, task, depend) ==
    IF DepthOk(d, depend) THEN [d EXCEPT ![task] = @ \cup {depend}] ELSE d

\* One round of the dependency loop, for task = lists[i]: it is left at
\* the first continue (no draw), at the second (one draw), or at its end
\* (two draws).
DependStep ==
    /\ pc = "depends"
    /\ gen.i < gen.length
    /\ LET task == tasklist[gen.i + 1] IN
        \E draws \in 0..2 :
        \E depend1 \in Candidates(gen.i), depend2 \in Candidates(gen.i) :
            LET after1 == IF draws >= 1 THEN AddDepend(depends, task, depend1)
                          ELSE depends
                after2 == IF draws >= 2 THEN AddDepend(after1, task, depend2)
                          ELSE after1
            IN
            /\ depends' = after2
            /\ gen' = [gen EXCEPT
                         !.i = @ + 1,
                         !.refused =
                            \/ @
                            \/ draws >= 1 /\ ~DepthOk(depends, depend1)
                            \/ draws >= 2 /\ ~DepthOk(after1, depend2)]
    /\ pc' = "depends"
    /\ UNCHANGED <<tasklist, type, duration, registers, scheduled, frontier,
                   simvars>>

\* The last shuffle and the return; order keeps the order the dependency
\* loop worked in.
ReturnTasks ==
    /\ pc = "depends"
    /\ gen.i >= gen.length
    /\ gen' = [gen EXCEPT !.order = tasklist]
    /\ tasklist' \in Perms(Tasks)
    /\ pc' = "returned"
    /\ UNCHANGED <<type, duration, registers, depends, scheduled, frontier,
                   simvars>>

NextGen ==
    \/ CreateTasks
    \/ DrawWeights
    \/ Balance
    \/ AssignTypes
    \/ AddDurations
    \/ AddRegisters
    \/ DependStep
    \/ ReturnTasks

SpecGen == InitGen /\ [][NextGen]_vars

\* generate_tasks is one sequential call: its next statement is executed.
SpecGenFair == SpecGen /\ WF_vars(NextGen)

\* ----------------------------------------------------- the dependency loop
\* The dependency loop is also run on lists of up to MaxDepTasks tasks.
MaxDepTasks == 5

\* generate_tasks at the start of its dependency loop, for one of the
\* task lists its earlier steps can have built.
InitDeps ==
    \E length \in 0..MaxDepTasks :
        /\ tasklist = [i \in 1..length |-> i]
        /\ type = [i \in 1..length |->
                     resource_ids[((i - 1) % Len(resource_ids)) + 1]]
        /\ duration = [i \in 1..length |-> 1]
        /\ registers = [i \in 1..length |-> {Register[1]}]
        /\ depends = [i \in 1..length |-> {}]
        /\ scheduled = [i \in 1..length |-> Unscheduled]
        /\ gen = [Locals(length) EXCEPT
                    !.i = 1,
                    !.resource_tasks =
                        [k \in 1..3 |->
                            Cardinality({i \in 1..length :
                                            ((i - 1) % 3) + 1 = k})]]
        /\ pc = "depends"
        /\ frontier = {}
        /\ NotCalled

\* generate_tasks from its first statement for the lengths of GenLengths,
\* and from its dependency loop for the longer lists.
InitGenDeps == InitGen \/ InitDeps

SpecDeps == InitGenDeps /\ [][NextGen]_vars

\* -------------------------------------- every schedule of a generated puzzle
\* The lengths the two front ends call generate_tasks with.
PuzzleLengths == {5, 9}

\* Task sets generate_tasks can return: every task drew the same duration
\* and register A, and no dependency was added.
InitPuzzle ==
    \E length \in PuzzleLengths, d \in DurationDraws :
        /\ tasklist = [i \in 1..length |-> i]
        /\ type = [i \in 1..length |->
                     resource_ids[((i - 1) % Len(resource_ids)) + 1]]
        /\ duration = [i \in 1..length |-> d]
        /\ registers = [i \in 1..length |-> {Register[1]}]
        /\ depends = [i \in 1..length |-> {}]
        /\ scheduled = [i \in 1..length |-> Unscheduled]
        /\ gen = [Locals(length) EXCEPT !.order = tasklist]
        /\ frontier = {[started |-> {}, running |-> {}]}
        /\ pc = "sweep"
        /\ NotCalled

\* The last tick an admission can happen at in an accepted run: after an
\* admission at tick t simulate_cpu's clock is t + 1, and it raises at 30.
LastStart == MaxTime - 2

\* The running slots of a sweep state that the clear loop of tick t leaves.
StillRunning(cfg, t) == {r \in cfg.running : ~(r[1] <= t)}

\* The completed set after the clear loop of tick t.
CompletedAt(cfg, t) == cfg.started \ {r[2] : r \in StillRunning(cfg, t)}

\* The tasks accept_task can admit at tick t next to those still running:
\* not admitted before, every dependency completed, no register shared
\* with a running task.
Eligible(cfg, t) ==
    {u \in Tasks \ cfg.started :
        /\ depends[u] \subseteq CompletedAt(cfg, t)
        /\ \A r \in StillRunning(cfg, t) :
              registers[u] \cap registers[r[2]] = {}}

\* The tasks of E that can be admitted in the same tick as those of S: no
\* register shared with any of them.
Beside(E, S) ==
    {v \in E \ S : \A u \in S : registers[u] \cap registers[v] = {}}

\* The sets of tasks the three calls of accept_task of tick t can admit:
\* each on a free channel (any channel, Task.type is not read), and no two
\* of them sharing a register.
Starts(cfg, t) ==
    LET E == Eligible(cfg, t)
        free == Len(resource_ids) - Cardinality(StillRunning(cfg, t))
        one == {{u} : u \in E}
        two == UNION {{S \cup {v} : v \in Beside(E, S)} : S \in one}
        three == UNION {{S \cup {v} : v \in Beside(E, S)} : S \in two}
    IN {{}} \cup (IF free >= 1 THEN one ELSE {})
            \cup (IF free >= 2 THEN two ELSE {})
            \cup (IF free >= 3 THEN three ELSE {})

\* The sweep state after tick t, when the tasks of S were admitted at t.
After(cfg, t, S) ==
    [started |-> cfg.started \cup S,
     running |-> StillRunning(cfg, t) \cup {<<t + duration[u], u>> : u \in S}]

\* One tick of simulate_cpu for all schedules at once that queue every
\* task exactly once and have met no violation so far: frontier holds the
\* sweep states they can be in.  A schedule with every task admitted by
\* tick LastStart is accepted.
Sweep ==
    /\ pc = "sweep"
    /\ IF \E cfg \in frontier : cfg.started = Tasks
       THEN pc' = "solvable" /\ UNCHANGED <<frontier, time>>
       ELSE IF time > LastStart
       THEN pc' = "unsolvable" /\ UNCHANGED <<frontier, time>>
       ELSE /\ frontier' =
                UNION {{After(cfg, time, S) : S \in Starts(cfg, time)} :
                          cfg \in frontier}
            /\ time' = time + 1
            /\ pc' = pc
    /\ UNCHANGED <<taskfields, gen, queues, solution, completed,
                   running_tasks, ch, err, admitted, trace, first, gui>>

SpecPuzzle == InitPuzzle /\ [][Sweep]_vars

\* C11 (as claimed): every way simulate_cpu turns a schedule down, the tick
\* ceiling included, raises the one exception class BadScheduleException, so
\* a caller that catches that class sees every rejection.
C11_OneExceptionKind ==
    (Terminal /\ ~Accepted) => err.exc = "BadScheduleException"

\* C12 (as claimed): the tick-ceiling error is raised only while some queue
\* still holds a task; a run that drained every queue without a violation is
\* accepted, whatever the tick of its last admission.
C12_CeilingOnlyWithPendingWork ==
    pc = "ceiling" => \E c \in Channels : Len(solution[c]) > 0

\* C13 (as claimed): every task set generate_tasks returns, for the lengths
\* 5 and 9 in particular, has a schedule (a start tick for every task, each
\* task in a queue) that simulate_cpu accepts.
C13_EveryPuzzleSolvable == pc # "unsolvable"

\* C14: simulate_cpu leaves the caller's queues and every field of every
\* task as they were, and a second call with the same arguments ends as the
\* first did: accepted, or the same exception for the same rule at the same
\* tick.
C14_CallerStateUntouched ==
    /\ [][taskvars' = taskvars]_vars
    /\ []((Terminal /\ first # None) => first = Outcome)

C14_Witness ==
    /\ first # None
    /\ pc = "rejected"
    /\ err.kind # "unscheduled"
    /\ admitted # <<>>
    /\ \E c \in Channels : queues[c] # solution[c]

\* The calls of accept_task so far are those of every tick from 0 on, each
\* tick's in the order RED, GREEN, BLUE, none left out.
CallsInOrder ==
    \A k \in DOMAIN trace :
        /\ trace[k][1] = (k - 1) \div Len(resource_ids)
        /\ trace[k][2] = ((k - 1) % Len(resource_ids)) + 1

\* C15: simulate_cpu reports the first violation in sweep order: when it
\* rejects at tick t on channel c, every call of accept_task before, for the
\* earlier ticks and for the channels before c at tick t, admitted the head,
\* found it waiting or found the queue empty; the violation is the last call,
\* the clock stays at t and no step follows the rejection.
C15_FirstViolation ==
    /\ [](/\ CallsInOrder
          /\ \A k \in DOMAIN trace :
                IF k = Len(trace) /\ pc = "rejected"
                THEN /\ trace[k] = <<err.tick, ch, "raised">>
                     /\ time = err.tick
                ELSE trace[k][3] \in {"admitted", "waiting", "empty"}
          /\ (pc = "rejected" /\ err.kind # "unscheduled") => trace # <<>>
          /\ Len(SelectSeq(trace, LAMBDA e : e[3] = "admitted"))
                = Len(admitted))
    /\ [][pc # "rejected"]_vars

C15_Witness ==
    /\ pc = "rejected"
    /\ ch > 1
    /\ time > 0
    /\ \E k \in DOMAIN trace : trace[k][3] = "admitted"
    /\ \E k \in DOMAIN trace : trace[k][3] = "waiting"

\* Some queue holds a task under a key that is not the task's type.
CrossQueued ==
    \E c \in Channels : \E i \in 1..Len(queues[c]) : type[queues[c][i]] # c

\* C16 (as claimed): an accepted schedule admitted every task on the channel
\* of the task's own type, and a schedule that queues a task under another
\* channel's key is rejected.
C16_OwnChannelOnly ==
    /\ Accepted => \A i \in Admissions : admitted[i][2] = type[admitted[i][1]]
    /\ (Terminal /\ CrossQueued) => pc = "rejected"

\* The order of lists while the dependency loop runs.
GenOrder == IF pc = "returned" THEN gen.order ELSE tasklist

\* What is left of the tasks of S after taking away, again and again, the
\* tasks with no dependency among those left: the tasks on or behind a cycle.
RECURSIVE OnCycles(_, _)
OnCycles(d, S) ==
    LET free == {t \in S : d[t] \cap S = {}} IN
    IF free = {} THEN S ELSE OnCycles(d, S \ free)

\* C17: in the dependency loop and in the returned task set no task depends
\* on itself, the dependency relation is acyclic, every dependency of a
\* task is at a strictly smaller index of the order the loop worked in, and
\* the first task of that order has no dependencies.
C17_DependsOnEarlier ==
    pc \in {"depends", "returned"} =>
        LET order == GenOrder IN
        /\ \A k \in 1..Len(order) :
              /\ order[k] \notin depends[order[k]]
              /\ \A j \in k..Len(order) : order[j] \notin depends[order[k]]
        /\ OnCycles(depends, Tasks) = {}
        /\ order # <<>> => depends[order[1]] = {}

C17_Witness ==
    /\ pc = "returned"
    /\ tasklist # gen.order
    /\ \E t \in Tasks : Cardinality(depends[t]) = 2
    /\ \E t \in Tasks : \E d \in depends[t] : depends[d] # {}

\* C18: the depth of every task (1 for a task without dependencies) is at
\* most 4 throughout the dependency loop and in the returned task set, and
\* a round of the loop leaves the depth of every task before the current
\* one, the candidates of this and of the earlier rounds, as it was.
C18_DepthAtMostFour ==
    /\ [](pc \in {"depends", "returned"} =>
            \A t \in Tasks : task_depth(depends, t) <= 4)
    /\ [][(pc = "depends" /\ depends' # depends) =>
            \A k \in 1..Len(tasklist) :
                k <= gen.i =>
                    task_depth(depends', tasklist[k])
                        = task_depth(depends, tasklist[k])]_vars

C18_Witness ==
    /\ pc = "returned"
    /\ gen.refused
    /\ \E t \in Tasks : task_depth(depends, t) = 4

\* C19: for every length N >= 0 generate_tasks returns, and what it returns
\* is a list of exactly N tasks whose ids are the pairwise distinct strings
\* "1" to "N", each with scheduled = -1; for N = 0 the list is empty.
C19_ReturnsLengthTasks ==
    /\ [](pc = "returned" =>
            /\ Len(tasklist) = gen.length
            /\ \A j, k \in 1..Len(tasklist) :
                  j # k => TaskId(tasklist[j]) # TaskId(tasklist[k])
            /\ {TaskId(tasklist[k]) : k \in 1..Len(tasklist)}
                  = {ToString(k) : k \in 1..gen.length}
            /\ \A t \in Tasks : scheduled[t] = -1)
    /\ <>(pc = "returned")

C19_Witness ==
    /\ pc = "returned"
    /\ gen.length = 2
    /\ tasklist = <<2, 1>>

\* C20: every returned task has a duration in 1..4, one or two registers
\* and at most two dependencies; two draws of the same register give a set
\* of one register.
C20_TaskFieldRanges ==
    /\ pc = "returned" =>
          \A t \in Tasks :
              /\ duration[t] \in 1..4
              /\ Cardinality(registers[t]) \in {1, 2}
              /\ Cardinality(depends[t]) <= 2
    /\ \A r \in RegisterDraws : Cardinality(RegisterSet(r, TRUE, r)) = 1

C20_Witness ==
    /\ pc = "returned"
    /\ \E t \in Tasks : duration[t] = 4 /\ Cardinality(registers[t]) = 2
    /\ \E t \in Tasks : duration[t] = 1 /\ Cardinality(registers[t]) = 1

\* The counts of a greedy loop that gives every tie of the exact distances
\* to the earliest channel.
RECURSIVE EarliestCounts(_, _, _, _)
EarliestCounts(w, length, counts, k) ==
    IF k = 0 THEN counts
    ELSE LET i == CHOOSE i \in Largest(w, length, counts) :
                      \A j \in Largest(w, length, counts) : i <= j
         IN EarliestCounts(w, length, [counts EXCEPT ![i] = @ + 1], k - 1)

\* The counts of the greedy loops that give every tie of the exact
\* distances to any one of the tied channels.
RECURSIVE GreedyCounts(_, _, _, _)
GreedyCounts(w, length, counts, k) ==
    IF k = 0 THEN {counts}
    ELSE UNION {GreedyCounts(w, length, [counts EXCEPT ![i] = @ + 1], k - 1) :
                    i \in Largest(w, length, counts)}

\* C21 (as claimed): the counts are those of the greedy loop in which a tie
\* of the shortfalls goes to the earliest of Red, Green, Blue.
C21_TiesToEarliest ==
    pc = "types" =>
        gen.resource_tasks
            = EarliestCounts(gen.weights, gen.length, <<0, 0, 0>>, gen.length)

\* C21 (amended): the counts are those of length greedy steps, each giving
\* one task to a channel of the largest shortfall (to one of the tied
\* channels when shortfalls are equal); they sum to length, each channel's
\* count is strictly less than its target ratio times length plus 1, and
\* afterwards every task has exactly one resource type, each channel typing
\* as many tasks as its count.
C21_BalancedCounts ==
    /\ pc = "types" =>
          LET w == gen.weights
              counts == gen.resource_tasks
          IN /\ counts \in GreedyCounts(w, gen.length, <<0, 0, 0>>, gen.length)
             /\ Sum3(counts) = gen.length
             /\ \A i \in 1..3 :
                   counts[i] * Sum3(w) < w[i] * gen.length + Sum3(w)
    /\ pc \in {"durations", "registers", "depends", "returned"} =>
          /\ \A t \in Tasks : type[t] \in Channels
          /\ \A i \in 1..3 :
                Cardinality({t \in Tasks : type[t] = resource_ids[i]})
                    = gen.resource_tasks[i]

C21_Witness ==
    /\ pc = "types"
    /\ gen.length = 2
    /\ gen.weights = <<MaxWeight, MinWeight, MinWeight>>
    /\ gen.resource_tasks = <<1, 1, 0>>

\* ------------------------------------------------- claims on simulate_cpu
\* The five conditions on a schedule: every task has a start tick and sits
\* in exactly one queue, each queue is back to back at the earliest, tasks
\* with overlapping windows share no register, every dependency has ended
\* when its dependent starts, and no task starts after tick 28.
WellFormedSchedule ==
    /\ \A t \in Tasks :
          /\ scheduled[t] >= 0
          /\ scheduled[t] <= LastStart
          /\ Cardinality({p \in Channels \X (1..Len(tasklist)) :
                              /\ p[2] <= Len(queues[p[1]])
                              /\ queues[p[1]][p[2]] = t}) = 1
          /\ \A d \in depends[t] : scheduled[d] + duration[d] <= scheduled[t]
    /\ \A c \in Channels : \A i \in 1..(Len(queues[c]) - 1) :
          scheduled[queues[c][i + 1]] >=
              scheduled[queues[c][i]] + duration[queues[c][i]]
    /\ \A t \in Tasks, u \in Tasks :
          (t # u /\ WindowsOverlap(t, u)) => registers[t] \cap registers[u] = {}

\* C22: simulate_cpu accepts every schedule in which every task has a start
\* tick of 0 or more and is in exactly one queue, every queue has each task
\* start at or after the end of the one before it, tasks with overlapping
\* windows have disjoint registers, every dependency ends no later than its
\* dependent starts, and every start tick is at most 28.
C22_AcceptsWellFormed ==
    (Terminal /\ WellFormedSchedule) => Accepted

C22_Witness ==
    /\ Accepted
    /\ WellFormedSchedule
    /\ Cardinality(Tasks) = 2
    /\ \E t \in Tasks : scheduled[t] = LastStart

\* The head of the queue that accept_task is about to look at.
HeadNow == solution[resource_ids[ch]][1]

\* The next step is an accept_task call that finds a head started too late.
LateHeadNow ==
    /\ pc = "accept"
    /\ Len(solution[resource_ids[ch]]) > 0
    /\ scheduled[HeadNow] < time

\* C23: when accept_task finds a head whose scheduled tick is below the
\* current tick, simulate_cpu rejects with "Schedule not in order", naming
\* the head, its scheduled tick and the current tick, whatever the running
\* slots, the registers and the dependencies are; and that rejection is
\* raised for no other head.
C23_LateHeadOutOfOrder ==
    /\ [](Rejected("order") =>
             /\ Len(solution[resource_ids[ch]]) > 0
             /\ err.task = HeadNow
             /\ scheduled[err.task] < err.tick
             /\ err.tick = time)
    /\ [][LateHeadNow =>
             /\ pc' = "rejected"
             /\ err'.exc = "BadScheduleException"
             /\ err'.kind = "order"
             /\ err'.task = HeadNow
             /\ err'.tick = time]_vars

\* A late head that also finds its slot occupied, by a task it depends on
\* and shares a register with.
C23_Witness ==
    /\ Rejected("order")
    /\ running_tasks[resource_ids[ch]] # None
    /\ running_tasks[resource_ids[ch]][2] \in depends[err.task]
    /\ Sharing(err.task) # {}

\* The rules a due head is breaking when accept_task rejects it.
BreaksCollision == running_tasks[resource_ids[ch]] # None
BreaksRegister == Sharing(err.task) # {}
BreaksDependency == depends[err.task] \ completed # {}

\* C24: a head that reaches its start tick and breaks several rules is
\* rejected with one reason, the first it breaks of collision, register
\* conflict, unmet dependency; a task started while its own channel is
\* occupied by its dependency is reported as a collision.
C24_OneReasonByPrecedence ==
    /\ [](pc = "rejected" /\ err.kind \in {"collision", "register", "dependency"}
            => /\ Len(solution[resource_ids[ch]]) > 0
               /\ err.task = HeadNow
               /\ scheduled[err.task] = time
               /\ err.kind = IF BreaksCollision THEN "collision"
                             ELSE IF BreaksRegister THEN "register"
                             ELSE "dependency"
               /\ err.kind = "dependency" => BreaksDependency)
    /\ [][(pc = "accept" /\ Len(solution[resource_ids[ch]]) > 0
             /\ scheduled[HeadNow] = time
             /\ running_tasks[resource_ids[ch]] # None)
          => (pc' = "rejected" /\ err'.kind = "collision")]_vars

\* A due head whose channel is occupied by its dependency, which also shares
\* a register with it: all three rules are broken, collision is reported.
C24_Witness ==
    /\ Rejected("collision")
    /\ BreaksCollision /\ BreaksRegister /\ BreaksDependency
    /\ running_tasks[resource_ids[ch]][2] \in depends[err.task]

\* The place of a channel in the order Red, Green, Blue.
Rank(c) == IF c = "RED" THEN 1 ELSE IF c = "GREEN" THEN 2 ELSE 3

\* The channels whose running task was admitted during the current tick.
AdmittedThisTick ==
    {c \in Channels :
        /\ running_tasks[c] # None
        /\ \E i \in Admissions : admitted[i] = <<running_tasks[c][2], c, time>>}

\* C25: within a tick the channels are served in the order Red, Green, Blue
\* and an admission is seen by the channels served after it: of two due
\* heads on different channels that share a register, the one on the earlier
\* channel is admitted and the one on the later channel is the task rejected
\* with the register conflict.
C25_EarlierChannelWins ==
    /\ [][\A c \in AdmittedThisTick :
            (/\ DueHead(HeadNow)
             /\ registers[HeadNow] \cap registers[running_tasks[c][2]] # {})
            => /\ Rank(c) < Rank(resource_ids[ch])
               /\ pc' = "rejected"
               /\ err'.kind = "register"
               /\ err'.task = HeadNow
               /\ err'.tick = time]_vars
    /\ [](\A c \in AdmittedThisTick :
            (Rejected("register") /\ err.other = running_tasks[c][2])
            => /\ Rank(c) < Rank(resource_ids[ch])
               /\ err.task = HeadNow)

\* Two heads due at the same tick on different channels, sharing a register,
\* the later one with nothing else against it.
C25_Witness ==
    /\ Rejected("register")
    /\ \E c \in AdmittedThisTick :
          /\ err.other = running_tasks[c][2]
          /\ err.other # err.task
          /\ scheduled[err.other] = scheduled[err.task]
    /\ depends[err.task] \subseteq completed

\* C28: a queue only ever loses its head, only at the tick equal to the
\* head's scheduled value, and in that step the head becomes the running
\* task of that channel with completion tick scheduled + duration; while the
\* head's scheduled value is above the current tick, the accept_task call
\* for its channel changes neither the queue nor the running slot.
C28_QueuesFifo ==
    [][/\ \A c \in Channels :
            solution'[c] # solution[c] =>
                /\ pc = "accept" /\ c = resource_ids[ch]
                /\ Len(solution[c]) > 0
                /\ solution'[c] = Tail(solution[c])
                /\ scheduled[solution[c][1]] = time
                /\ running_tasks[c] = None
                /\ running_tasks'[c] =
                      <<scheduled[solution[c][1]] + duration[solution[c][1]],
                        solution[c][1]>>
       /\ (/\ pc = "accept"
           /\ Len(solution[resource_ids[ch]]) > 0
           /\ scheduled[HeadNow] > time)
          => /\ solution' = solution
             /\ running_tasks' = running_tasks
             /\ pc' # "rejected"]_vars

\* A queue of two tasks emptied in order, the second after a wait.
C28_Witness ==
    /\ Accepted
    /\ Len(admitted) = 2
    /\ admitted[1][2] = admitted[2][2]
    /\ \E c \in Channels : queues[c] = <<admitted[1][1], admitted[2][1]>>
    /\ \E i \in DOMAIN trace : trace[i][3] = "waiting"
                               /\ resource_ids[trace[i][2]] = admitted[2][2]

\* Two neighbours of queue c, at places i and i + 1, have the same scheduled
\* tick, and the sweep has ended with exactly the first i tasks of the queue
\* admitted.
TwinAfterAdmission(c, i) ==
    /\ Terminal
    /\ i + 1 <= Len(queues[c])
    /\ scheduled[queues[c][i]] = scheduled[queues[c][i + 1]]
    /\ Len(solution[c]) = Len(queues[c]) - i

\* No channel has two admissions at one tick.
OneAdmissionPerTick ==
    \A i \in Admissions, j \in Admissions :
        (admitted[i][2] = admitted[j][2] /\ admitted[i][3] = admitted[j][3])
            => i = j

\* C29 (as claimed): of two tasks queued on one channel with the same
\* scheduled tick t, the first being admitted at t, the second is rejected
\* at t + 1 as "Schedule not in order", whatever t is.
C29_TwinRejectedNextTick ==
    /\ OneAdmissionPerTick
    /\ \A c \in Channels, i \in 1..Len(tasklist) :
          TwinAfterAdmission(c, i) =>
              /\ Rejected("order")
              /\ err.task = queues[c][i + 1]
              /\ err.tick = scheduled[queues[c][i]] + 1

\* C29 (amended): the same for t at most 28, and when the rejection is the
\* one of that channel; for t = 29 the clock reaches the ceiling first.
C29_TwinRejectedBeforeCeiling ==
    /\ OneAdmissionPerTick
    /\ \A c \in Channels, i \in 1..Len(tasklist) :
          TwinAfterAdmission(c, i) =>
              IF scheduled[queues[c][i]] <= LastStart
              THEN /\ pc = "rejected"
                   /\ c = resource_ids[ch] =>
                         /\ err.kind = "order"
                         /\ err.task = queues[c][i + 1]
                         /\ err.tick = scheduled[queues[c][i]] + 1
              ELSE /\ pc = "ceiling"
                   /\ scheduled[queues[c][i]] = MaxTime - 1

\* Two different tasks on one channel with one start tick, the first
\* admitted, the second rejected a tick later while the first still runs.
C29_Witness ==
    /\ Rejected("order")
    /\ \E c \in Channels :
          /\ TwinAfterAdmission(c, 1)
          /\ c = resource_ids[ch]
          /\ queues[c][1] # queues[c][2]
          /\ running_tasks[c] # None
          /\ running_tasks[c][2] = queues[c][1]

\* The tasks in a running slot, and the tasks still in a queue of the sweep.
InSlot == {running_tasks[c][2] : c \in {k \in Channels : running_tasks[k] # None}}
StillQueued == UNION {Range(solution[c]) : c \in Channels}

\* The number of places task t has in the queues handed to simulate_cpu.
Places(t) ==
    Cardinality({p \in Channels \X (1..Len(tasklist)) :
                    /\ p[2] <= Len(queues[p[1]])
                    /\ queues[p[1]][p[2]] = t})

\* What both readings of C27 share: completed holds only admitted tasks
\* whose completion tick has been reached, none of them in a running slot.
CompletedHasEnded ==
    \A t \in completed :
        /\ \E i \in Admissions :
              /\ admitted[i][1] = t
              /\ admitted[i][3] = scheduled[t]
        /\ scheduled[t] + duration[t] <= time
        /\ t \notin InSlot

C26_Terminates ==
    /\ time = 0
    /\ [](time \in 0..MaxTime)
    /\ [][time' # time =>
             /\ time' = time + 1
             /\ pc = "accept" /\ ch = Len(resource_ids)
             /\ pc' = "loop"]_vars
    /\ [][(pc = "accept" /\ ch = Len(resource_ids) /\ pc' = "loop")
             => time' = time + 1]_vars
    /\ <>Terminal
    /\ [](Terminal => \/ Accepted
                      \/ pc = "rejected" /\ err.exc = "BadScheduleException"
                      \/ pc = "ceiling" /\ time = MaxTime)

\* A run that used all 30 iterations.
C26_Witness ==
    /\ pc = "ceiling"
    /\ time = MaxTime
    /\ Len(trace) = MaxTime * Len(resource_ids)

\* ------------------------------------------- simulate_cpu as one function
\* What a caller that does not look inside sees of simulate_cpu(sol,
\* tasklist): how the call ends, as a function of the queues and the tasks.
Verdict(end, kind) == [pc |-> end, kind |-> kind]

\* The locals of a call: its copy of the queues, the running slots, the
\* completed set, and the BadScheduleException raised, if any.
Call(sol) ==
    [sol |-> sol, running |-> [c \in Channels |-> None], done |-> {},
     kind |-> "none"]

RECURSIVE clear_from(_, _, _)
RECURSIVE accept_from(_, _, _)
RECURSIVE sweep_from(_, _)

\* The "clear completed tasks" loop of tick t from channel index i on.
clear_from(s, t, i) ==
    IF i > Len(resource_ids) THEN s
    ELSE LET v == s.running[resource_ids[i]] IN
         clear_from(IF v # None /\ v[1] <= t
                    THEN [s EXCEPT !.running[resource_ids[i]] = None,
                                   !.done = @ \cup {v[2]}]
                    ELSE s,
                    t, i + 1)

\* accept_task(channel, solution, time, running_tasks, completed)
accept_task(s, t, channel) ==
    IF Len(s.sol[channel]) = 0 THEN s
    ELSE
    LET task == s.sol[channel][1] IN
    IF scheduled[task] < t THEN [s EXCEPT !.kind = "order"]
    ELSE IF ~(scheduled[task] = t) THEN s
    ELSE IF s.running[channel] # None THEN [s EXCEPT !.kind = "collision"]
    ELSE IF \E c \in Channels :
               /\ s.running[c] # None
               /\ registers[task] \cap registers[s.running[c][2]] # {}
    THEN [s EXCEPT !.kind = "register"]
    ELSE IF depends[task] \ s.done # {} THEN [s EXCEPT !.kind = "dependency"]
    ELSE [s EXCEPT !.sol[channel] = Tail(@),
                   !.running[channel] = <<t + duration[task], task>>]

\* The accept_task calls of tick t from channel index i on, up to the first
\* that raises.
accept_from(s, t, i) ==
    IF i > Len(resource_ids) \/ s.kind # "none" THEN s
    ELSE accept_from(accept_task(s, t, resource_ids[i]), t, i + 1)

\* The while loop from its test at tick t on.
sweep_from(s, t) ==
    IF s.kind # "none" THEN Verdict("rejected", s.kind)
    ELSE IF (\E c \in Channels : Len(s.sol[c]) > 0) /\ t < MaxTime
    THEN sweep_from(accept_from(clear_from(s, t, 1), t, 1), t + 1)
    ELSE IF t >= MaxTime THEN Verdict("ceiling", "ceiling")
    ELSE Verdict("accepted", "none")

simulate_cpu(sol) ==
    IF \E i \in 1..Len(tasklist) : scheduled[tasklist[i]] = Unscheduled
    THEN Verdict("rejected", "unscheduled")
    ELSE sweep_from(Call(sol), 0)

\* The function and the statement-by-statement model end the same way.
VerdictAgrees ==
    Terminal => simulate_cpu(queues) = Verdict(pc, err.kind)

\* ------------------------------------------------ pygame_app: the GameScene
\* A FretBoard has 20 time slots: time = int((y - top) / (height / 20)).
BoardSlots == 20

\* Mutant of PointerSlots: a board that reaches down to slot 29.
PointerSlotsLate == {0, 1, MaxTime - 1}

\* The slots the mouse is pressed, moved and released over.
PointerSlots == {0, 1, BoardSlots - 1}

\* The points of the window the mouse visits: the place a card is laid out
\* at, the two buttons, and the middle of a slot of the Red or of the Green
\* board. The card places and the buttons are outside of every board.
Home(t) == <<"home", t>>
ResetButton == <<"Reset", 0>>
SubmitButton == <<"Submit", 0>>
BoardPoints == {"RED", "GREEN"} \X PointerSlots
Points ==
    {Home(t) : t \in Tasks} \cup {ResetButton, SubmitButton} \cup BoardPoints

\* currently_selected = None
NoCard == 0

\* GameScene.__init__ for two tasks that generate_tasks can return, the
\* second sharing a register with the first, or depending on it, or
\* neither: every card laid out and visible, every board empty, no task
\* scheduled.
InitGui ==
    \E ty \in {<<"RED", "RED">>, <<"RED", "GREEN">>},
       d1 \in 1..MaxDur,
       rd \in {<<{"A"}, {}>>, <<{"B"}, {}>>, <<{"B"}, {1}>>} :
        /\ tasklist = <<1, 2>>
        /\ type = ty
        /\ duration = <<d1, 1>>
        /\ registers = <<{"A"}, rd[1]>>
        /\ depends = <<{}, rd[2]>>
        /\ scheduled = <<Unscheduled, Unscheduled>>
        /\ queues = [c \in Channels |-> <<>>]
        /\ solution = queues
        /\ completed = {}
        /\ time = 0
        /\ running_tasks = [c \in Channels |-> None]
        /\ ch = 1
        /\ err = NoError
        /\ admitted = <<>>
        /\ trace = <<>>
        /\ first = None
        /\ gen = None
        /\ frontier = {}
        /\ pc = "tick"
        /\ gui = [place |-> [t \in 1..2 |-> Home(t)],
                  visible |-> [t \in 1..2 |-> TRUE],
                  captured |-> [c \in Channels |-> {}],
                  selected |-> NoCard,
                  pressed |-> FALSE,
                  completed |-> FALSE,
                  errs |-> "none",
                  crashed |-> FALSE]

\* region.collidepoint(p) for a card lying with its centre at point q: the
\* card is five text lines high, a slot is a twentieth of the board's 500
\* pixels, so a card on a board also covers the middle of the slots next to
\* its own.
Covers(q, p) ==
    \/ q = p
    \/ /\ q[1] \in Channels
       /\ q[1] = p[1]
       /\ q[2] - p[2] \in {-1, 0, 1}

\* The click observers of the cards: the visible cards under the mouse.
CardsAt(p) == {t \in Tasks : gui.visible[t] /\ Covers(gui.place[t], p)}

\* The first of a set of cards in the order of GameScene.cards.
FirstCard(S) ==
    CHOOSE t \in S : \A u \in S : Pos(tasklist, t) <= Pos(tasklist, u)

\* FretBoard.grab_line: the places on the board under the mouse whose task
\* covers the slot, t.scheduled <= time < t.scheduled + t.duration.
GrabIndexes(p) ==
    IF p[1] \notin Channels THEN {}
    ELSE {i \in 1..Len(queues[p[1]]) :
            LET t == queues[p[1]][i] IN
            scheduled[t] <= p[2] /\ p[2] < scheduled[t] + duration[t]}

\* time_board.remove(item): the list without its element at place i.
RemoveAt(l, i) == SubSeq(l, 1, i - 1) \o SubSeq(l, i + 1, Len(l))

\* FretBoard.drop_object's loop over the board: the index the task is
\* inserted at, or -1 when its window overlaps a task of the board.
RECURSIVE DropIndex(_, _, _, _)

\* Mutant of DropIndex: the task is put at the end of the board, whatever
\* is on it.
DropIndexLast(board, slot, task, i) == Len(board)

DropIndex(board, slot, task, i) ==
    IF ~(i < Len(board)) THEN i
    ELSE LET o_task == board[i + 1] IN
         IF slot + duration[task] <= scheduled[o_task] THEN i
         ELSE IF slot >= scheduled[o_task] + duration[o_task]
         THEN DropIndex(board, slot, task, i + 1)
         ELSE -1

\* time_board.insert(i, task)
InsertAt(l, i, task) == SubSeq(l, 1, i) \o <<task>> \o SubSeq(l, i + 1, Len(l))

\* GameScene.reset_card_pos
reset_card_pos(g) == [g EXCEPT !.place = [t \in Tasks |-> Home(t)]]

\* GameScene.submit_solution for the boards q: completed on a normal return,
\* the message lines on a BadScheduleException; any other exception is not
\* caught and ends the program.
submit_solution(g, q) ==
    LET v == simulate_cpu(q) IN
    IF v.pc = "accepted" THEN [g EXCEPT !.completed = TRUE]
    ELSE IF v.pc = "rejected" THEN [g EXCEPT !.errs = v.kind]
    ELSE [g EXCEPT !.crashed = TRUE]

\* The two Button objects at the end of tick, with the mouse pressed at p:
\* a button under a pressed mouse calls its callback.
Buttons(p, g, q) ==
    LET r == IF p = ResetButton THEN reset_card_pos(g) ELSE g
    IN IF p = SubmitButton THEN submit_solution(r, q) ELSE r

\* tick is drawing the game: not completed, not ended by an exception.
Playing == pc = "tick" /\ ~gui.completed /\ ~gui.crashed

\* A tick with the button going down at p: every click observer is called,
\* the cards' first and then the boards' grab_line, and the first result
\* that is not None becomes currently_selected.
Click(p) ==
    /\ Playing
    /\ ~gui.pressed
    /\ LET hit == CardsAt(p)
           grab == GrabIndexes(p)
           i == CHOOSE i \in grab : \A j \in grab : i <= j
           item == queues[p[1]][i]
           boards == IF grab = {} THEN queues
                     ELSE [queues EXCEPT ![p[1]] = RemoveAt(@, i)]
           grabbed ==
               IF grab = {} THEN gui
               ELSE [gui EXCEPT !.captured[p[1]] = @ \ {item},
                                !.visible[item] = TRUE]
           selected == IF hit # {} THEN FirstCard(hit)
                       ELSE IF grab # {} THEN item
                       ELSE NoCard
       IN IF grab # {} /\ item \notin gui.captured[p[1]]
          THEN /\ gui' = [gui EXCEPT !.crashed = TRUE]
               /\ queues' = queues
          ELSE /\ queues' = boards
               /\ gui' = Buttons(p, [grabbed EXCEPT !.selected = selected,
                                                    !.pressed = TRUE],
                                 boards)
    /\ UNCHANGED <<taskfields, solution, completed, time, running_tasks, pc,
                   ch, err, admitted, trace, first, gen, frontier>>

\* A tick with the button held down and the mouse at p: the selected card,
\* if any, is centred on the mouse.
Drag(p) ==
    /\ Playing
    /\ gui.pressed
    /\ gui' = Buttons(p,
                      IF gui.selected = NoCard THEN gui
                      ELSE [gui EXCEPT !.place[gui.selected] = p],
                      queues)
    /\ UNCHANGED <<taskfields, queues, solution, completed, time,
                   running_tasks, pc, ch, err, admitted, trace, first, gen,
                   frontier>>

\* Mutant of OwnBoard: a board takes a card of any type.
AnyBoard(task, c) == TRUE

\* task_card.task.type != self.resource_type, negated, for the board c
OwnBoard(task, c) == type[task] = c

\* A tick with the button released at p: every board's drop_object is
\* called, the board under the mouse takes the selected card if the type is
\* its own and the window is free, and nothing is selected any more.
Drop(p) ==
    /\ Playing
    /\ gui.pressed
    /\ LET task == gui.selected
           board == queues[p[1]]
           i == DropIndex(board, p[2], task, 0)
       IN IF /\ p[1] \in Channels
             /\ task # NoCard
             /\ OwnBoard(task, p[1])
             /\ i # -1
          THEN /\ scheduled' = [scheduled EXCEPT ![task] = p[2]]
               /\ queues' = [queues EXCEPT ![p[1]] = InsertAt(@, i, task)]
               /\ gui' = [gui EXCEPT !.visible[task] = FALSE,
                                     !.captured[p[1]] = @ \cup {task},
                                     !.selected = NoCard,
                                     !.pressed = FALSE]
          ELSE /\ gui' = [gui EXCEPT !.selected = NoCard, !.pressed = FALSE]
               /\ UNCHANGED <<scheduled, queues>>
    /\ UNCHANGED <<tasklist, type, duration, registers, depends, solution,
                   completed, time, running_tasks, pc, ch, err, admitted,
                   trace, first, gen, frontier>>

MouseDown == \E p \in Points : Click(p)
MouseHeld == \E p \in Points : Drag(p)
MouseUp == \E p \in Points : Drop(p)

NextGui == MouseDown \/ MouseHeld \/ MouseUp

SpecGui == InitGui /\ [][NextGui]_vars

\* The tasks on some board's time_board.
OnBoards == UNION {Range(queues[c]) : c \in Channels}

\* C30: in the graphical app, after any sequence of clicks, drags and drops
\* a task has scheduled different from -1 only while it is on some board's
\* time_board, so that submit_solution sets completed to True only when
\* every task of task_list is on a board.
C30_ScheduledOnlyOnBoard ==
    /\ \A t \in Tasks : scheduled[t] # Unscheduled => t \in OnBoards
    /\ gui.completed => Tasks \subseteq OnBoards

\* ------------------------------------------------ claims on the GameScene
\* The window of a task on a board reaches the slot.
CoversSlot(t, k) == scheduled[t] <= k /\ k < scheduled[t] + duration[t]

\* C31: every board's time_board is sorted by scheduled with pairwise
\* disjoint windows [scheduled, scheduled + duration); a task comes onto a
\* board only into a free window, and a release of the mouse that puts no
\* task on a board leaves every board, every card's visibility and every
\* task's scheduled as they were.
C31_BoardsSortedDisjoint ==
    /\ [](\A c \in Channels : \A i \in 1..Len(queues[c]), j \in 1..Len(queues[c]) :
            i < j => scheduled[queues[c][i]] + duration[queues[c][i]]
                        <= scheduled[queues[c][j]])
    /\ [][\A c \in Channels :
            Len(queues'[c]) > Len(queues[c]) =>
                LET task == gui.selected IN
                /\ gui.pressed /\ ~gui'.pressed
                /\ task # NoCard
                /\ ~gui'.visible[task]
                /\ \E i \in 0..Len(queues[c]) :
                      queues'[c] = InsertAt(queues[c], i, task)
                /\ \A k \in 1..Len(queues[c]) :
                      LET o == queues[c][k] IN
                      \/ scheduled'[task] + duration[task] <= scheduled[o]
                      \/ scheduled[o] + duration[o] <= scheduled'[task]]_vars
    /\ [][(gui.pressed /\ ~gui'.pressed /\ queues' = queues)
            => /\ scheduled' = scheduled
               /\ gui'.visible = gui.visible
               /\ gui'.captured = gui.captured]_vars

\* A card of the board's own type left lying, visible and never scheduled,
\* over a slot that a task of the board occupies.
C31_Witness ==
    /\ ~gui.pressed
    /\ \E t \in Tasks, c \in Channels, k \in PointerSlots :
          /\ gui.visible[t]
          /\ scheduled[t] = Unscheduled
          /\ type[t] = c
          /\ gui.place[t] = <<c, k>>
          /\ \E i \in 1..Len(queues[c]) : CoversSlot(queues[c][i], k)

\* C32: whatever the boards hold after drops and grabs, the simulate_cpu
\* call of submit_solution ends neither in "Schedule not in order", nor in
\* "Task collision", nor in the tick-ceiling error that submit_solution
\* does not catch: the start ticks on the boards are in 0..19 and every
\* board is ordered without overlap.
C32_SubmitNeverOrderCollisionCeiling ==
    /\ simulate_cpu(queues).kind \notin {"order", "collision", "ceiling"}
    /\ gui.errs \notin {"order", "collision"}
    /\ ~gui.crashed
    /\ \A t \in OnBoards : scheduled[t] \in 0..(BoardSlots - 1)

\* A puzzle completed with a task in the last slot of its board.
C32_Witness ==
    /\ gui.completed
    /\ \E t \in OnBoards : scheduled[t] = BoardSlots - 1
    /\ Tasks \subseteq OnBoards

\* The tasks a step takes off the boards.
TakenOff == {t \in Tasks : t \in OnBoards /\ t \notin OnBoards'}

\* C33: a mouse click takes a task off a board only if that task's card
\* becomes currently_selected; no click takes a task off a board while
\* another card is the one selected.
C33_GrabbedIsSelected ==
    [][\A t \in TakenOff : gui'.selected = t]_vars

\* C34: every task on a board's time_board has the board's resource type
\* and is on the boards exactly once, and a card is invisible exactly when
\* its task is on a board, whose captured_cards then holds it.
C34_OwnBoardOnceInvisible ==
    /\ \A c \in Channels : \A i \in 1..Len(queues[c]) : type[queues[c][i]] = c
    /\ \A t \in OnBoards : Places(t) = 1
    /\ \A t \in Tasks : ~gui.visible[t] <=> t \in OnBoards
    /\ \A c \in Channels : gui.captured[c] = Range(queues[c])

\* One task on its board, the card of the other left lying, visible, on a
\* board of another type.
C34_Witness ==
    /\ ~gui.pressed
    /\ OnBoards # {}
    /\ \E u \in Tasks, c \in Channels, k \in PointerSlots :
          /\ gui.visible[u]
          /\ gui.place[u] = <<c, k>>
          /\ type[u] # c

====
